---- MODULE Spec2Model ----
(***************************************************************************)
(* The interactive pronunciation tutor (python/pronunciation_tutor.py):    *)
(* the main loop as a state machine over its control location, its local   *)
(* variables, the two audio files it works on, the console lines it prints *)
(* and the service wrappers it invokes; and the basic-usage script         *)
(* (python/basic_usage.py).  A behaviour is one run of one of the two      *)
(* scripts, from the module-level code that reads the API key.             *)
(*                                                                         *)
(* Strings the program computes on (the menu selection) are sequences of   *)
(* one-character strings, so that strip(), lower() and int() are computed  *)
(* as Python computes them.                                                *)
(***************************************************************************)
EXTENDS Integers, Sequences, FiniteSets, TLC

VARIABLES
    script,         \* which script runs: "tutor" or "basic"
    keyEnv,         \* SPEECH_AI_API_KEY in the environment, or EnvAbsent
    pc,             \* control location of the script
    exc,            \* the exception that left main() uncaught, or "none"
    exitStatus,     \* {} while the process runs, then {its exit status}
    line,           \* the last line read from standard input by the prompt
    choice,         \* local `choice`: the stripped line
    sentence,       \* local `sentence`, Unset before the first valid pick
    transcription,  \* local `transcription`, NoObject before the first success
    assessment,     \* local `assessment`, NoObject before the first success
    refAudio,       \* reference_audio.wav: "absent", or when it was written
    userAudio,      \* user_recording.wav: "absent", or when it was written
    recorded,       \* what record_audio() returned since the last prompt
    calls,          \* service wrappers invoked since the last prompt
    out,            \* console lines printed since the last prompt
    report,         \* what print_feedback() reported since the last prompt
    sampleAudio,    \* basic usage: sample.wav, "absent" or "present"
    outputTts,      \* basic usage: output_tts.wav, "absent", "old" or "new"
    audioToUse      \* basic usage: local `audio_to_use`, or Unset

vars == <<script, keyEnv, pc, exc, exitStatus, line, choice, sentence,
          transcription, assessment, refAudio, userAudio, recorded, calls,
          out, report, sampleAudio, outputTts, audioToUse>>

\* What the tutor's loop never touches.
fixedInTutor == <<script, keyEnv, sampleAudio, outputTts, audioToUse>>

\* A local of main() before its first assignment: a string, a line, an
\* object of a response.
Unset == "<unset>"
NoLine == << "<unset>" >>
NoObject == [unset |-> TRUE]

\* A Python bool held in a variable that can also be Unset.
Bool(b) == IF b THEN "True" ELSE "False"

-----------------------------------------------------------------------------
(* Bounds of the model. *)

\* The prompt reads, besides the listed lines, every string over
\* LineAlphabet of at most MaxLineLen characters.
MaxLineLen == 2

-----------------------------------------------------------------------------
(* SENTENCES, and the fixed file names. *)

SENTENCES ==
    << "Hello, how are you?",
       "The weather is nice today.",
       "She sells seashells by the seashore.",
       "I would like a cup of coffee, please.",
       "The quick brown fox jumps over the lazy dog.",
       "Peter Piper picked a peck of pickled peppers.",
       "How much wood would a woodchuck chuck if a woodchuck could chuck wood?" >>

ref_audio == "reference_audio.wav"
user_audio == "user_recording.wav"

-----------------------------------------------------------------------------
(* str.strip(), str.lower() and int() on sequences of characters. *)

Whitespace == {" ", "\t", "\n", "\r"}

UpperCase == << "A","B","C","D","E","F","G","H","I","J","K","L","M",
                "N","O","P","Q","R","S","T","U","V","W","X","Y","Z" >>
LowerCase == << "a","b","c","d","e","f","g","h","i","j","k","l","m",
                "n","o","p","q","r","s","t","u","v","w","x","y","z" >>
Digits == << "0","1","2","3","4","5","6","7","8","9" >>

LowerChar(c) ==
    IF \E i \in 1..Len(UpperCase) : UpperCase[i] = c
    THEN LowerCase[CHOOSE i \in 1..Len(UpperCase) : UpperCase[i] = c]
    ELSE c

Lower(s) == [i \in 1..Len(s) |-> LowerChar(s[i])]

RECURSIVE LStrip(_)
LStrip(s) ==
    IF Len(s) > 0 /\ s[1] \in Whitespace THEN LStrip(Tail(s)) ELSE s

RECURSIVE RStrip(_)
RStrip(s) ==
    IF Len(s) > 0 /\ s[Len(s)] \in Whitespace
    THEN RStrip(SubSeq(s, 1, Len(s) - 1))
    ELSE s

Strip(s) == RStrip(LStrip(s))

IsDigit(c) == \E i \in 1..Len(Digits) : Digits[i] = c
DigitVal(c) == (CHOOSE i \in 1..Len(Digits) : Digits[i] = c) - 1

\* The digit part int() accepts: digits, with single underscores between them.
ValidDigits(s) ==
    /\ Len(s) > 0
    /\ IsDigit(s[1])
    /\ IsDigit(s[Len(s)])
    /\ \A i \in 1..Len(s) : IsDigit(s[i]) \/ s[i] = "_"
    /\ \A i \in 1..(Len(s) - 1) : ~(s[i] = "_" /\ s[i + 1] = "_")

RECURSIVE DigitsValue(_, _)
DigitsValue(s, acc) ==
    IF Len(s) = 0 THEN acc
    ELSE IF s[1] = "_" THEN DigitsValue(Tail(s), acc)
    ELSE DigitsValue(Tail(s), 10 * acc + DigitVal(s[1]))

\* int(s): [ok |-> TRUE, val |-> n], or ok = FALSE for ValueError.
ParseInt(s) ==
    LET t == Strip(s)
        signed == Len(t) > 0 /\ t[1] \in {"+", "-"}
        body == IF signed THEN Tail(t) ELSE t
    IN  IF ValidDigits(body)
        THEN [ok |-> TRUE,
              val |-> IF signed /\ t[1] = "-"
                      THEN 0 - DigitsValue(body, 0)
                      ELSE DigitsValue(body, 0)]
        ELSE [ok |-> FALSE, val |-> 0]

-----------------------------------------------------------------------------
(* What the environment can feed the program. *)

\* Lines typed at the menu prompt.
ListedLines ==
    { <<"q">>, <<"Q">>, <<"q","u","i","t">>, <<"Q","U","I","T">>,
      <<"e","x","i","t">>, <<" ","E","x","i","T","\t">>,
      <<"q","u","i","t","s">>, <<"q"," ","q">>,
      <<"2">>, <<"3">>, <<"4">>, <<"5">>, <<"6">>, <<"7">>, <<" ","7"," ">>,
      <<"+","3">>, <<"0","0","5">>,
      <<"0">>, <<"8">>, <<"-","1">>, <<"1","0">>, <<"1","_","0">>,
      <<"1",".","5">>, <<"a","b","c">>, <<"_","1">>, <<"-"," ","1">> }

LineAlphabet == {"1", "q", " "}

RECURSIVE StringsUpTo(_)
StringsUpTo(n) ==
    IF n = 0 THEN { <<>> }
    ELSE LET shorter == StringsUpTo(n - 1)
         IN  shorter \cup { Append(s, c) : s \in shorter, c \in LineAlphabet }

Lines == ListedLines \cup StringsUpTo(MaxLineLen)

\* How a call of a service wrapper can end.  HTTPError is httpx.HTTPError:
\* a non-success status (raise_for_status) or a transport failure (post).
TtsOutcomes == {"ok", "HTTPError", "OSError"}
SttOutcomes == {"ok", "HTTPError", "OSError", "JSONDecodeError"}
AssessOutcomes == {"ok", "HTTPError", "OSError", "JSONDecodeError"}

\* A JSON value of a response: a number (held in hundredths), null, or the
\* key being absent from the object.
Num(n) == [kind |-> "number", val |-> n]
Null == [kind |-> "null", val |-> 0]
Absent == [kind |-> "absent", val |-> 0]

\* dict.get(key, default) on a value of the object.
Get(v, default) == IF v.kind = "absent" THEN default ELSE v

Transcriptions ==
    { [text |-> "hello how are you"] }

Assessments ==
    { [overallScore |-> Num(9200), words |-> <<>>],
      [overallScore |-> Absent, words |-> <<>>],
      [overallScore |-> Null, words |-> <<>>] }

\* A file is "absent", "old" (written before the last prompt) or "new"
\* (written since the last prompt).
Aged(f) == IF f = "new" THEN "old" ELSE f

\* What the learner does with user_recording.wav during the recording wait.
LearnerActs == {"record", "nothing", "delete"}

-----------------------------------------------------------------------------
(* Console lines. *)

MsgGoodbye == "Keep practicing! Goodbye."
MsgInputError == "Please enter a number between 1 and 7"
MsgTarget == "Target"
MsgStep1 == "Step 1: Generating reference audio..."
MsgTtsError == "TTS error"
MsgRefSaved == "Reference audio saved"
MsgContinuing == "Could not generate reference audio. Continuing anyway..."
MsgStep2 == "Step 2: Record yourself saying the sentence."
MsgPlaceholder == "Press Enter when your recording is ready"
MsgFileNotFound == "File not found"
MsgSkipping == "Skipping - no recording found."
MsgStep3 == "Step 3: Transcribing your recording..."
MsgSttError == "STT error"
MsgStep4 == "Step 4: Scoring pronunciation..."
MsgAssessError == "Assessment error"
MsgReport == "PRONUNCIATION REPORT"
MsgReportBody == "Overall Score"

Printed(m) == \E i \in 1..Len(out) : out[i] = m
Invoked(op) == \E i \in 1..Len(calls) : calls[i].op = op
TimesInvoked(op) == Cardinality({i \in 1..Len(calls) : calls[i].op = op})

NoText == "<none>"
\* A finished call of a wrapper: its arguments and how it ended.
Call(op, path, text, result) ==
    [op |-> op, path |-> path, text |-> text, result |-> result]

Failed(op) ==
    \E i \in 1..Len(calls) : calls[i].op = op /\ calls[i].result = "HTTPError"
Succeeded(op) ==
    \E i \in 1..Len(calls) : calls[i].op = op /\ calls[i].result = "ok"

-----------------------------------------------------------------------------
(* print_feedback(): what it works out from its three arguments.  Scores   *)
(* are held in hundredths of a point, so Pts(90) is the 90 of the code.    *)
(* The report is what the function decides (grade, markers, weak sounds,   *)
(* closing tip); the layout of the printed lines is not modelled.          *)

Pts(n) == 100 * n

\* x.get("score", 0) and assessment.get("overallScore", 0), as a number
ScoreOf(v) == Get(v, Num(0)).val

\* The bands with 75 moved to 70, the threshold of the closing tip.
GradeBandsAt70(overall) ==
    IF overall >= Pts(90) THEN "Excellent"
    ELSE IF overall >= Pts(70) THEN "Good"
    ELSE IF overall >= Pts(60) THEN "Fair"
    ELSE IF overall >= Pts(40) THEN "Needs Work"
    ELSE "Keep Practicing"

\* if overall >= 90 ... elif ... else: the grade
Grade(overall) ==
    IF overall >= Pts(90) THEN "Excellent"
    ELSE IF overall >= Pts(75) THEN "Good"
    ELSE IF overall >= Pts(60) THEN "Fair"
    ELSE IF overall >= Pts(40) THEN "Needs Work"
    ELSE "Keep Practicing"

\* The marker with <= for <.
MarkedInclusive(score) == score <= Pts(70)

\* marker = " *" if score < 70 else ""
Marked(score) == score < Pts(70)

\* The weak test with <= for <.
IsWeakInclusive(ps) == ps <= Pts(60)

\* if ps < 60
IsWeak(ps) == ps < Pts(60)

\* for p in phonemes: the parts of the word's line, and weak_phonemes grown
\* by the weak sounds of the word.
RECURSIVE PhonemeLoop(_, _, _, _)
PhonemeLoop(word, phonemes, parts, weak) ==
    IF phonemes = <<>> THEN [parts |-> parts, weak |-> weak]
    ELSE LET p == Head(phonemes)
             ph == p.phoneme
             ps == ScoreOf(p.score)
         IN  PhonemeLoop(word, Tail(phonemes),
                         Append(parts, [phoneme |-> ph, score |-> ps]),
                         IF IsWeak(ps)
                         THEN Append(weak, [word |-> word, phoneme |-> ph,
                                            score |-> ps])
                         ELSE weak)

\* for w in words: one printed row per word, and weak_phonemes.
RECURSIVE WordLoop(_, _, _)
WordLoop(words, rows, weak) ==
    IF words = <<>> THEN [rows |-> rows, weak |-> weak]
    ELSE LET w == Head(words)
             score == ScoreOf(w.score)
             inner == PhonemeLoop(w.word, w.phonemes, <<>>, weak)
         IN  WordLoop(Tail(words),
                      Append(rows, [word |-> w.word, score |-> score,
                                    parts |-> inner.parts,
                                    marked |-> Marked(score)]),
                      inner.weak)

TipHarder == "Great job! Try a harder sentence."
TipReview == "Good progress! Focus on the starred (*) words above."
TipSlower ==
    "Tip: Listen to the reference audio again, then try speaking more slowly."

\* The tip with 75, the edge of the grade band, for 70.
ClosingTipAt75(overall) ==
    IF overall >= Pts(90) THEN TipHarder
    ELSE IF overall >= Pts(75) THEN TipReview
    ELSE TipSlower

\* if overall >= 90 ... elif overall >= 70 ... else: the closing tip
ClosingTip(overall) ==
    IF overall >= Pts(90) THEN TipHarder
    ELSE IF overall >= Pts(70) THEN TipReview
    ELSE TipSlower

\* print_feedback(assessment, transcription, reference)
PrintFeedback(a, t, reference) ==
    LET overall == ScoreOf(a.overallScore)
        loop == WordLoop(a.words, <<>>, <<>>)
    IN  [overall |-> overall,
         grade |-> Grade(overall),
         target |-> reference,
         said |-> t.text,
         rows |-> loop.rows,
         weak |-> loop.weak,
         tip |-> ClosingTip(overall)]

-----------------------------------------------------------------------------
(* main(): the decisions of the loop. *)

\* Each decision below is preceded by a variant of it with one slip, used to
\* show that the properties at the end of the module depend on the decision.

\* The quit test without lower().
IsQuitTokenCaseSensitive(c) ==
    c \in { <<"q">>, <<"q","u","i","t">>, <<"e","x","i","t">> }

\* choice.lower() in ("q", "quit", "exit")
IsQuitToken(c) ==
    Lower(c) \in { <<"q">>, <<"q","u","i","t">>, <<"e","x","i","t">> }

\* The range test without its lower bound.
InRangeNoLowerBound(i) == i < Len(SENTENCES)

\* not (idx < 0 or idx >= len(SENTENCES))
InRange(i) == ~(i < 0 \/ i >= Len(SENTENCES))

\* The lookup taking the 1-based number for the index.
CatalogGetOffByOne(i) == SENTENCES[((i + 1) % Len(SENTENCES)) + 1]

\* SENTENCES[idx]: a Python list counts a negative index from its end.
CatalogGet(i) ==
    IF i < 0 THEN SENTENCES[Len(SENTENCES) + i + 1] ELSE SENTENCES[i + 1]

\* except httpx.HTTPError: the one exception class main() and
\* tts_synthesize() catch.
Caught(e) == e = "HTTPError"

\* A failed synthesis abandoning the pass.
AfterSynthesisStrict(ok) ==
    IF ok THEN "AwaitingRecording" ELSE "SelectingSentence"

\* Where main() goes after tts_synthesize() returned ok (True or False):
\* both branches of the if fall through to step 2.
AfterSynthesis(ok) == "AwaitingRecording"

\* A missing recording not abandoning the pass.
AfterRecordingAnyway(found) == "Transcribing"

\* Where main() goes after record_audio() returned found.
AfterRecording(found) ==
    IF found THEN "Transcribing" ELSE "SelectingSentence"

\* Handlers without their continue, and a handler that retries.
AfterSttErrorFallsThrough == "Assessing"
AfterAssessErrorFallsThrough == "ReportingFeedback"
AfterSttErrorRetries == "Transcribing"

\* Where main() goes from a try block whose call raised the caught
\* exception (continue), and from one whose call returned.
AfterSttError == "SelectingSentence"
AfterStt == "Assessing"
AfterAssessError == "SelectingSentence"
AfterAssess == "ReportingFeedback"

\* A handler that prints nothing.
SttErrorSilent == <<>>

\* What the handlers of the recovered errors print.
InputErrorLines == <<MsgInputError>>
TtsErrorLines == <<MsgTtsError, MsgContinuing>>
NoRecordingLines == <<MsgFileNotFound, MsgSkipping>>
SttErrorLines == <<MsgSttError>>
AssessErrorLines == <<MsgAssessError>>

\* print_feedback() raises TypeError at `overall >= 90` when the response
\* carries overallScore: null.
FeedbackRaises(a) == Get(a.overallScore, Num(0)).kind # "number"

\* An exception no handler catches leaves main(): the interpreter prints the
\* traceback and exits with status 1.
Uncaught(e) ==
    /\ pc' = "Crashed"
    /\ exc' = e
    /\ exitStatus' = {1}

-----------------------------------------------------------------------------
(* The process as it starts: the script, the environment and the files it *)
(* finds.                                                                  *)

EnvAbsent == "<absent>"
KeyEnvs == {EnvAbsent, "", "subscription-key"}

MsgNoKey == "Error: set SPEECH_AI_API_KEY environment variable"
MsgExportHint == "export SPEECH_AI_API_KEY='your-subscription-key'"

\* The test taken for `not API_KEY` when only an absent variable is thought of.
KeyMissingOnlyAbsent(env) == env = EnvAbsent

\* API_KEY = os.environ.get("SPEECH_AI_API_KEY", ""), and `not API_KEY`.
KeyMissing(env) == (IF env = EnvAbsent THEN "" ELSE env) = ""

TutorInit ==
    /\ script = "tutor"
    /\ keyEnv \in KeyEnvs
    /\ pc = "Startup"
    /\ exc = "none"
    /\ exitStatus = {}
    /\ report = NoObject
    /\ sampleAudio = "absent"
    /\ outputTts = "absent"
    /\ audioToUse = Unset
    /\ line = NoLine
    /\ choice = NoLine
    /\ sentence = Unset
    /\ transcription = NoObject
    /\ assessment = NoObject
    /\ refAudio \in {"absent", "old"}
    /\ userAudio \in {"absent", "old"}
    /\ recorded = Unset
    /\ calls = <<>>
    /\ out = <<>>

BasicInit ==
    /\ script = "basic"
    /\ keyEnv \in KeyEnvs
    /\ pc = "Startup"
    /\ exc = "none"
    /\ exitStatus = {}
    /\ report = NoObject
    /\ sampleAudio \in {"absent", "present"}
    /\ outputTts \in {"absent", "old"}
    /\ audioToUse = Unset
    /\ line = NoLine
    /\ choice = NoLine
    /\ sentence = Unset
    /\ transcription = NoObject
    /\ assessment = NoObject
    /\ refAudio = "absent"
    /\ userAudio = "absent"
    /\ recorded = Unset
    /\ calls = <<>>
    /\ out = <<>>

Init == TutorInit \/ BasicInit

-----------------------------------------------------------------------------
(* One action per step of the loop. *)

\* The module-level code: the key is read and, when it is missing, the
\* script prints its diagnostic and calls sys.exit(1).  Otherwise main()
\* starts; the tutor prints its menu and reaches the first prompt.
Startup ==
    /\ pc = "Startup"
    /\ UNCHANGED <<script, keyEnv, exc, line, choice, sentence,
                   transcription, assessment, refAudio, userAudio, recorded,
                   calls, report, sampleAudio, outputTts, audioToUse>>
    /\ IF KeyMissing(keyEnv)
       THEN /\ out' = IF script = "tutor" THEN <<MsgNoKey>>
                                           ELSE <<MsgNoKey, MsgExportHint>>
            /\ pc' = "Exited"
            /\ exitStatus' = {1}
       ELSE /\ out' = <<>>
            /\ pc' = IF script = "tutor" THEN "SelectingSentence"
                                         ELSE "BasicSynthesizing"
            /\ UNCHANGED exitStatus

\* The prompt, the quit test, the parse and the range test.
Select(ln) ==
    /\ pc = "SelectingSentence"
    /\ line' = ln
    /\ choice' = Strip(ln)
    /\ calls' = <<>>
    /\ recorded' = Unset
    /\ refAudio' = Aged(refAudio)
    /\ userAudio' = Aged(userAudio)
    /\ report' = NoObject
    /\ UNCHANGED <<exc, transcription, assessment>>
    /\ UNCHANGED fixedInTutor
    /\ IF IsQuitToken(choice')
       THEN /\ out' = <<MsgGoodbye>>
            /\ pc' = "Terminated"
            /\ exitStatus' = {0}
            /\ UNCHANGED sentence
       ELSE LET p == ParseInt(choice')
                idx == p.val - 1
            IN  IF p.ok /\ InRange(idx)
                THEN /\ sentence' = CatalogGet(idx)
                     /\ out' = <<MsgTarget>>
                     /\ pc' = "Synthesizing"
                     /\ UNCHANGED exitStatus
                ELSE /\ out' = InputErrorLines
                     /\ pc' = "SelectingSentence"
                     /\ UNCHANGED <<sentence, exitStatus>>

\* input() at the prompt raises EOFError: standard input is at its end.
SelectEOF ==
    /\ pc = "SelectingSentence"
    /\ Uncaught("EOFError")
    /\ out' = <<>>
    /\ calls' = <<>>
    /\ report' = NoObject
    /\ UNCHANGED fixedInTutor
    /\ recorded' = Unset
    /\ refAudio' = Aged(refAudio)
    /\ userAudio' = Aged(userAudio)
    /\ UNCHANGED <<line, choice, sentence, transcription, assessment>>

\* Step 1: tts_synthesize(sentence, ref_audio) and the branch on its result.
Synthesize(o) ==
    /\ pc = "Synthesizing"
    /\ UNCHANGED <<fixedInTutor, report>>
    /\ calls' = Append(calls, Call("tts_synthesize", ref_audio, sentence, o))
    /\ UNCHANGED <<line, choice, sentence, transcription, assessment,
                   userAudio, recorded>>
    /\ IF o = "ok"
       THEN /\ refAudio' = "new"
            /\ out' = out \o <<MsgStep1, MsgRefSaved>>
            /\ pc' = AfterSynthesis(TRUE)
            /\ UNCHANGED <<exc, exitStatus>>
       ELSE IF Caught(o)
       THEN /\ out' = out \o <<MsgStep1>> \o TtsErrorLines
            /\ pc' = AfterSynthesis(FALSE)
            /\ UNCHANGED <<refAudio, exc, exitStatus>>
       ELSE /\ out' = Append(out, MsgStep1)
            /\ Uncaught(o)
            /\ UNCHANGED refAudio

\* Step 2: record_audio(user_audio): the countdown, the confirmation read
\* from standard input and the test that the file exists.
Record(act, eof) ==
    /\ pc = "AwaitingRecording"
    /\ UNCHANGED <<fixedInTutor, report>>
    /\ userAudio' = CASE act = "record" -> "new"
                      [] act = "delete" -> "absent"
                      [] OTHER -> userAudio
    /\ UNCHANGED <<line, choice, sentence, transcription, assessment,
                   refAudio, calls>>
    /\ IF eof
       THEN /\ out' = out \o <<MsgStep2, MsgPlaceholder>>
            /\ Uncaught("EOFError")
            /\ UNCHANGED recorded
       ELSE /\ recorded' = Bool(userAudio' # "absent")
            /\ pc' = AfterRecording(userAudio' # "absent")
            /\ UNCHANGED <<exc, exitStatus>>
            /\ IF userAudio' # "absent"
               THEN out' = out \o <<MsgStep2, MsgPlaceholder>>
               ELSE out' = out \o <<MsgStep2, MsgPlaceholder>>
                                    \o NoRecordingLines

\* Step 3: stt_transcribe(user_audio) in its try block.
Transcribe(o, t) ==
    /\ pc = "Transcribing"
    /\ UNCHANGED <<fixedInTutor, report>>
    /\ calls' = Append(calls, Call("stt_transcribe", user_audio, NoText, o))
    /\ UNCHANGED <<line, choice, sentence, assessment, refAudio,
                   userAudio, recorded>>
    /\ IF o = "ok"
       THEN /\ transcription' = t
            /\ out' = Append(out, MsgStep3)
            /\ pc' = AfterStt
            /\ UNCHANGED <<exc, exitStatus>>
       ELSE IF Caught(o)
       THEN /\ out' = out \o <<MsgStep3>> \o SttErrorLines
            /\ pc' = AfterSttError
            /\ UNCHANGED <<exc, exitStatus, transcription>>
       ELSE /\ out' = Append(out, MsgStep3)
            /\ Uncaught(o)
            /\ UNCHANGED transcription

\* Step 4: pronunciation_assess(user_audio, sentence) in its try block.
Assess(o, a) ==
    /\ pc = "Assessing"
    /\ UNCHANGED <<fixedInTutor, report>>
    /\ calls' = Append(calls,
                       Call("pronunciation_assess", user_audio, sentence, o))
    /\ UNCHANGED <<line, choice, sentence, transcription, refAudio,
                   userAudio, recorded>>
    /\ IF o = "ok"
       THEN /\ assessment' = a
            /\ out' = Append(out, MsgStep4)
            /\ pc' = AfterAssess
            /\ UNCHANGED <<exc, exitStatus>>
       ELSE IF Caught(o)
       THEN /\ out' = out \o <<MsgStep4>> \o AssessErrorLines
            /\ pc' = AfterAssessError
            /\ UNCHANGED <<exc, exitStatus, assessment>>
       ELSE /\ out' = Append(out, MsgStep4)
            /\ Uncaught(o)
            /\ UNCHANGED assessment

\* Step 5 with a print_feedback() that takes the words off the response as
\* it prints them.
ReportFeedbackConsuming ==
    /\ pc = "ReportingFeedback"
    /\ UNCHANGED fixedInTutor
    /\ UNCHANGED <<line, choice, sentence, transcription, refAudio,
                   userAudio, recorded, calls>>
    /\ IF FeedbackRaises(assessment)
       THEN /\ out' = Append(out, MsgReport)
            /\ Uncaught("TypeError")
            /\ UNCHANGED <<report, assessment>>
       ELSE /\ out' = out \o <<MsgReport, MsgReportBody>>
            /\ report' = PrintFeedback(assessment, transcription, sentence)
            /\ assessment' = [assessment EXCEPT !.words = <<>>]
            /\ pc' = "SelectingSentence"
            /\ UNCHANGED <<exc, exitStatus>>

\* Step 5: print_feedback(assessment, transcription, sentence).
ReportFeedback ==
    /\ pc = "ReportingFeedback"
    /\ UNCHANGED fixedInTutor
    /\ UNCHANGED <<line, choice, sentence, transcription, assessment,
                   refAudio, userAudio, recorded, calls>>
    /\ IF FeedbackRaises(assessment)
       THEN /\ out' = Append(out, MsgReport)
            /\ Uncaught("TypeError")
            /\ UNCHANGED report
       ELSE /\ out' = out \o <<MsgReport, MsgReportBody>>
            /\ report' = PrintFeedback(assessment, transcription, sentence)
            /\ pc' = "SelectingSentence"
            /\ UNCHANGED <<exc, exitStatus>>

-----------------------------------------------------------------------------
(* basic_usage.py: main() calls its three functions one after the other,   *)
(* with no handler around any of them.                                     *)

sample_audio == "sample.wav"
output_tts == "output_tts.wav"
FoxText == "The quick brown fox jumps over the lazy dog."

MsgSynthesis == "Text-to-Speech (Synthesis)"
MsgSaved == "Saved to"
MsgTranscription == "Speech-to-Text (Transcription)"
MsgTranscribed == "Transcription"
MsgAssessment == "Pronunciation Assessment"
MsgScore == "Overall score"
MsgDone == "All three APIs demonstrated successfully."

\* How a call of synthesize_speech, transcribe_audio and
\* assess_pronunciation can end: returning, or raising from httpx.post or
\* raise_for_status (HTTPError), from open() (OSError), from
\* response.json() (JSONDecodeError) or while printing the result
\* (TypeError for a start that is no number, KeyError for a phoneme without
\* its key).
BasicTtsOutcomes == {"ok", "HTTPError", "OSError"}
BasicSttOutcomes == {"ok", "HTTPError", "OSError", "JSONDecodeError",
                     "TypeError"}
BasicAssessOutcomes == {"ok", "HTTPError", "OSError", "JSONDecodeError",
                        "KeyError"}

\* The choice of the clip that never takes the sample.
AudioToUseAlwaysOutput(sampleExists) == output_tts

\* sample_audio if os.path.exists(sample_audio) else "output_tts.wav"
AudioToUse(sampleExists) ==
    IF sampleExists THEN sample_audio ELSE output_tts

\* What no step of basic_usage.py touches.
fixedInBasic == <<script, keyEnv, line, choice, sentence, transcription,
                  assessment, refAudio, userAudio, recorded, report,
                  sampleAudio>>

\* synthesize_speech(text, "output_tts.wav", ...)
BasicSynthesize(o) ==
    /\ pc = "BasicSynthesizing"
    /\ UNCHANGED <<fixedInBasic, audioToUse>>
    /\ calls' = Append(calls, Call("synthesize_speech", output_tts, FoxText, o))
    /\ IF o = "ok"
       THEN /\ outputTts' = "new"
            /\ out' = out \o <<MsgSynthesis, MsgSaved>>
            /\ pc' = "BasicChoosingAudio"
            /\ UNCHANGED <<exc, exitStatus>>
       ELSE /\ out' = Append(out, MsgSynthesis)
            /\ Uncaught(o)
            /\ UNCHANGED outputTts

\* audio_to_use = sample_audio if os.path.exists(sample_audio) else ...
BasicChooseAudio ==
    /\ pc = "BasicChoosingAudio"
    /\ UNCHANGED <<fixedInBasic, outputTts, calls, out, exc, exitStatus>>
    /\ audioToUse' = AudioToUse(sampleAudio = "present")
    /\ pc' = "BasicTranscribing"

\* transcribe_audio(audio_to_use)
BasicTranscribe(o) ==
    /\ pc = "BasicTranscribing"
    /\ UNCHANGED <<fixedInBasic, outputTts, audioToUse>>
    /\ calls' = Append(calls, Call("transcribe_audio", audioToUse, NoText, o))
    /\ IF o = "ok"
       THEN /\ out' = out \o <<MsgTranscription, MsgTranscribed>>
            /\ pc' = "BasicAssessing"
            /\ UNCHANGED <<exc, exitStatus>>
       ELSE /\ out' = IF o = "TypeError"
                      THEN out \o <<MsgTranscription, MsgTranscribed>>
                      ELSE Append(out, MsgTranscription)
            /\ Uncaught(o)

\* assess_pronunciation(audio_to_use, text), then the closing lines; main()
\* returns and the process exits with status 0.
BasicAssess(o) ==
    /\ pc = "BasicAssessing"
    /\ UNCHANGED <<fixedInBasic, outputTts, audioToUse>>
    /\ calls' = Append(calls,
                       Call("assess_pronunciation", audioToUse, FoxText, o))
    /\ IF o = "ok"
       THEN /\ out' = out \o <<MsgAssessment, MsgScore, MsgDone>>
            /\ pc' = "BasicDone"
            /\ exitStatus' = {0}
            /\ UNCHANGED exc
       ELSE /\ out' = IF o = "KeyError"
                      THEN out \o <<MsgAssessment, MsgScore>>
                      ELSE Append(out, MsgAssessment)
            /\ Uncaught(o)

Next ==
    \/ Startup
    \/ \E ln \in Lines : Select(ln)
    \/ SelectEOF
    \/ \E o \in TtsOutcomes : Synthesize(o)
    \/ \E act \in LearnerActs, eof \in BOOLEAN : Record(act, eof)
    \/ \E o \in SttOutcomes, t \in Transcriptions : Transcribe(o, t)
    \/ \E o \in AssessOutcomes, a \in Assessments : Assess(o, a)
    \/ ReportFeedback
    \/ \E o \in BasicTtsOutcomes : BasicSynthesize(o)
    \/ BasicChooseAudio
    \/ \E o \in BasicSttOutcomes : BasicTranscribe(o)
    \/ \E o \in BasicAssessOutcomes : BasicAssess(o)

Spec == Init /\ [][Next]_vars

-----------------------------------------------------------------------------
(* print_feedback() on its own: the loop stands at step 5 of an iteration  *)
(* whose four earlier steps succeeded, and the assessment is any response  *)
(* out of a bounded family that sits on the thresholds of the function.    *)

MaxWords == 2

\* Overall scores on both sides of every threshold (hundredths of a point).
BoundaryScores ==
    {0, 3999, 4000, 5999, 6000, 6999, 7000, 7499, 7500, 8999, 9000, 10000}
OverallScores == {Absent, Null} \cup {Num(n) : n \in BoundaryScores}

WordNames == {"fox", "dog"}
WordScores == {Absent, Num(6999), Num(7000)}
Phoneme(ph, s) == [phoneme |-> ph, score |-> s]
PhonemeLists ==
    { <<>>,
      <<Phoneme("f", Num(5999)), Phoneme("o", Num(6000))>>,
      <<Phoneme("d", Absent), Phoneme("o", Num(5999))>> }
WordResults ==
    [word : WordNames, score : WordScores, phonemes : PhonemeLists]
WordLists == UNION {[1..n -> WordResults] : n \in 0..MaxWords}

FeedbackInputs == [overallScore : OverallScores, words : WordLists]

FeedbackInit ==
    /\ script = "tutor"
    /\ keyEnv = "subscription-key"
    /\ pc = AfterAssess
    /\ exc = "none"
    /\ exitStatus = {}
    /\ report = NoObject
    /\ sampleAudio = "absent"
    /\ outputTts = "absent"
    /\ audioToUse = Unset
    /\ line = <<"1">>
    /\ choice = Strip(line)
    /\ sentence = CatalogGet(ParseInt(choice).val - 1)
    /\ transcription \in Transcriptions
    /\ assessment \in FeedbackInputs
    /\ refAudio = "new"
    /\ userAudio = "new"
    /\ recorded = Bool(TRUE)
    /\ calls = << Call("tts_synthesize", ref_audio, sentence, "ok"),
                  Call("stt_transcribe", user_audio, NoText, "ok"),
                  Call("pronunciation_assess", user_audio, sentence, "ok") >>
    /\ out = << MsgTarget, MsgStep1, MsgRefSaved, MsgStep2, MsgPlaceholder,
                MsgStep3, MsgStep4 >>

FeedbackNext == ReportFeedback

FeedbackSpec == FeedbackInit /\ [][FeedbackNext]_vars

-----------------------------------------------------------------------------
(* The vocabulary of the properties, defined on the line as typed and not  *)
(* through Strip, Lower and ParseInt.                                      *)

QuitWords == { <<"q">>, <<"q","u","i","t">>, <<"e","x","i","t">> }

NonBlank(ln) == {i \in 1..Len(ln) : ln[i] \notin Whitespace}

\* The line without its surrounding whitespace.
Trimmed(ln) ==
    IF NonBlank(ln) = {} THEN <<>>
    ELSE LET first == CHOOSE i \in NonBlank(ln) : \A j \in NonBlank(ln) : i <= j
             last == CHOOSE i \in NonBlank(ln) : \A j \in NonBlank(ln) : i >= j
         IN  SubSeq(ln, first, last)

\* t spells word, letter by letter, in any letter case.
Spells(t, word) ==
    /\ Len(t) = Len(word)
    /\ \A i \in 1..Len(word) :
          \/ t[i] = word[i]
          \/ \E k \in 1..Len(LowerCase) :
                LowerCase[k] = word[i] /\ UpperCase[k] = t[i]

IsQuitLine(ln) == \E word \in QuitWords : Spells(Trimmed(ln), word)

\* The digits of a numeral: the trimmed line without a leading sign.
Unsigned(t) == IF Len(t) > 0 /\ t[1] \in {"+", "-"} THEN Tail(t) ELSE t

IsNumeral(ln) ==
    LET b == Unsigned(Trimmed(ln))
    IN  Len(b) > 0 /\ \A i \in 1..Len(b) : IsDigit(b[i])

RECURSIVE PlaceValue(_)
PlaceValue(b) ==
    IF Len(b) = 0 THEN 0
    ELSE DigitVal(b[Len(b)]) + 10 * PlaceValue(SubSeq(b, 1, Len(b) - 1))

\* The number a numeral denotes.
NumberOf(ln) ==
    LET t == Trimmed(ln)
    IN  IF t[1] = "-" THEN 0 - PlaceValue(Unsigned(t)) ELSE PlaceValue(Unsigned(t))

IsPick(ln) == IsNumeral(ln) /\ NumberOf(ln) \in 1..Len(SENTENCES)

\* Not a quit token, and non-numeric or a number outside 1..length.
IsInvalidLine(ln) == ~IsQuitLine(ln) /\ ~IsPick(ln)

Ended == {"Terminated", "Crashed"}
RemoteOps == {"tts_synthesize", "stt_transcribe", "pronunciation_assess"}

-----------------------------------------------------------------------------
(* Properties. *)

\* C1: whenever the transcribe call made since the last prompt failed with
\* a service error, the controller is in SelectingSentence, the session has
\* not ended, and neither assess nor the feedback engine was invoked since
\* that prompt.
C1_SttErrorAborts ==
    Failed("stt_transcribe") =>
        /\ pc = "SelectingSentence"
        /\ exc = "none"
        /\ ~Invoked("pronunciation_assess")
        /\ ~Printed(MsgReport)

C1_Witness ==
    /\ Failed("stt_transcribe")
    /\ pc = "SelectingSentence"
    /\ recorded = "True"

\* C2: whenever the assess call made since the last prompt failed with a
\* service error, the controller is in SelectingSentence, the session has
\* not ended and no report was printed; and a report is printed only after
\* both transcribe and assess succeeded since that prompt.
C2_AssessErrorAborts ==
    /\ Failed("pronunciation_assess") =>
          /\ pc = "SelectingSentence"
          /\ exc = "none"
          /\ ~Printed(MsgReport)
    /\ Printed(MsgReport) =>
          /\ Succeeded("stt_transcribe")
          /\ Succeeded("pronunciation_assess")

C2_Witness ==
    /\ Failed("pronunciation_assess")
    /\ Succeeded("stt_transcribe")
    /\ pc = "SelectingSentence"

\* C3: the step in which synthesize fails with a service error takes the
\* controller from Synthesizing to AwaitingRecording, not to
\* SelectingSentence and not to the end of the session.
C3_TtsErrorProceeds ==
    [][(pc = "Synthesizing" /\ Failed("tts_synthesize")')
          => (pc' = "AwaitingRecording" /\ exc' = "none")]_vars

\* A pass whose synthesis failed and that went on to print its report.
C3_Witness ==
    /\ Failed("tts_synthesize")
    /\ Succeeded("stt_transcribe")
    /\ Succeeded("pronunciation_assess")
    /\ Printed(MsgReportBody)
    /\ pc = "SelectingSentence"

\* C4: once the recording step found no clip at the user-recording path,
\* the controller is back in SelectingSentence with neither transcribe nor
\* assess invoked and no report printed; and transcribe is invoked only
\* after the recording step reported a clip.
C4_NoRecordingAborts ==
    /\ (recorded # Unset /\ userAudio = "absent") =>
          /\ recorded = "False"
          /\ pc = "SelectingSentence"
          /\ ~Invoked("stt_transcribe")
          /\ ~Invoked("pronunciation_assess")
          /\ ~Printed(MsgReport)
    /\ Invoked("stt_transcribe") => recorded = "True"

C4_Witness ==
    /\ recorded = "False"
    /\ userAudio = "absent"
    /\ Invoked("tts_synthesize")
    /\ pc = "SelectingSentence"

\* C5: the session ends only by a step taken in SelectingSentence, and
\* nothing changes once it has ended.
C5_EndsOnlyFromSelecting ==
    [][script = "tutor" =>
          /\ (pc \notin Ended /\ pc' \in Ended) => pc = "SelectingSentence"
          /\ pc \in Ended => UNCHANGED vars]_vars

\* C6: whenever the line read at the prompt is q, quit or exit in any letter
\* case, with or without surrounding whitespace, the session is Terminated
\* and no service wrapper was invoked since that prompt.
C6_QuitTerminates ==
    (line # NoLine /\ IsQuitLine(line)) =>
        /\ pc = "Terminated"
        /\ exc = "none"
        /\ calls = <<>>

\* Quit in mixed case between whitespace, after a pass that ran to its
\* report and a later one that did not.
C6_Witness ==
    /\ pc = "Terminated"
    /\ line = <<" ","E","x","i","T","\t">>
    /\ assessment # NoObject
    /\ userAudio = "absent"

\* C7: after a line that is neither a quit token nor a number in
\* 1..length, the controller is in SelectingSentence, the input-error
\* message was printed, and no service wrapper was invoked and no recording
\* wait was started since that prompt.
C7_InvalidStays ==
    (exc = "none" /\ line # NoLine /\ IsInvalidLine(line)) =>
        /\ pc = "SelectingSentence"
        /\ Printed(MsgInputError)
        /\ calls = <<>>
        /\ recorded = Unset

C7_Witness ==
    /\ pc = "SelectingSentence"
    /\ line = <<"8">>
    /\ Printed(MsgInputError)
    /\ sentence # Unset

\* C8: a number n in 1..length selects SENTENCES[n] (1-based; index n-1 of
\* the list), and that text is the text passed to synthesize and the
\* reference text passed to assess; a number whose index n-1 is outside
\* [0, length) gets the input error and selects nothing.
C8_CatalogLookup ==
    /\ (line # NoLine /\ IsPick(line)) =>
          /\ sentence = SENTENCES[NumberOf(line)]
          /\ \A i \in 1..Len(calls) :
                calls[i].op \in {"tts_synthesize", "pronunciation_assess"}
                   => calls[i].text = SENTENCES[NumberOf(line)]
    /\ (exc = "none" /\ line # NoLine /\ IsNumeral(line) /\ ~IsPick(line)) =>
          /\ Printed(MsgInputError)
          /\ pc = "SelectingSentence"
          /\ calls = <<>>

C8_Witness ==
    /\ line = <<" ","7"," ">>
    /\ sentence = SENTENCES[7]
    /\ Succeeded("tts_synthesize")
    /\ Succeeded("pronunciation_assess")

\* C9: since the last prompt each of synthesize, transcribe and assess was
\* invoked at most once.
C9_NoRetries ==
    \A op \in RemoteOps : TimesInvoked(op) <= 1

C9_Witness ==
    /\ Failed("tts_synthesize")
    /\ Failed("stt_transcribe")
    /\ TimesInvoked("tts_synthesize") = 1
    /\ TimesInvoked("stt_transcribe") = 1
    /\ pc = "SelectingSentence"

\* C10: every recovered error has its message on the console in the state
\* the failing step leaves: a failed synthesis, a missing recording, a
\* failed transcription, a failed assessment and an invalid selection.
C10_ErrorsSurfaced ==
    /\ Failed("tts_synthesize") => Printed(MsgTtsError)
    /\ recorded = "False" => Printed(MsgFileNotFound)
    /\ Failed("stt_transcribe") => Printed(MsgSttError)
    /\ Failed("pronunciation_assess") => Printed(MsgAssessError)
    /\ (exc = "none" /\ line # NoLine /\ IsInvalidLine(line))
          => Printed(MsgInputError)

C10_Witness ==
    /\ Failed("tts_synthesize")
    /\ Failed("stt_transcribe")
    /\ Printed(MsgTtsError)
    /\ Printed(MsgSttError)

-----------------------------------------------------------------------------
(* The report against the response it was made from.  The score a response *)
(* states is read here from the response itself; a score that is missing   *)
(* counts as 0.                                                            *)

Reported == report # NoObject
GivenScore(v) == IF v.kind = "number" THEN v.val ELSE 0

\* C11: every response whose overallScore is a number of [0,100] or is
\* missing gets a report, and the grade of the report is Excellent from 90,
\* Good from 75 to below 90, Fair from 60 to below 75, Needs Work from 40 to
\* below 60 and Keep Practicing below 40.
C11_GradeBands ==
    /\ (pc # "ReportingFeedback" /\ assessment.overallScore.kind # "null")
          => Reported
    /\ Reported =>
          LET s == GivenScore(assessment.overallScore)
              g == report.grade
          IN  /\ g = "Excellent" <=> s >= 9000
              /\ g = "Good" <=> (s >= 7500 /\ s < 9000)
              /\ g = "Fair" <=> (s >= 6000 /\ s < 7500)
              /\ g = "Needs Work" <=> (s >= 4000 /\ s < 6000)
              /\ g = "Keep Practicing" <=> s < 4000

C11_Witness ==
    /\ Reported
    /\ assessment.overallScore = Num(7499)
    /\ report.grade = "Fair"

\* C12: the report has one row per word of the response, in the order of
\* the response, and a row is starred exactly when its word's own score is
\* below 70.
C12_WordRows ==
    Reported =>
       /\ Len(report.rows) = Len(assessment.words)
       /\ \A i \in 1..Len(assessment.words) :
             /\ report.rows[i].word = assessment.words[i].word
             /\ report.rows[i].marked
                   <=> GivenScore(assessment.words[i].score) < 7000

C12_Witness ==
    /\ Reported
    /\ GivenScore(assessment.overallScore) >= 9000
    /\ Len(assessment.words) = 2
    /\ assessment.words[1].word # assessment.words[2].word
    /\ assessment.words[1].score = Num(7000)
    /\ assessment.words[1].phonemes # <<>>
    /\ ~report.rows[1].marked
    /\ assessment.words[2].score = Num(6999)
    /\ assessment.words[2].phonemes = <<>>
    /\ report.rows[2].marked

\* The places <<word, phoneme>> of the response whose sound scored below 60,
\* and the order of the response on them.
WeakPlaces(ws) ==
    { p \in UNION { {<<i, j>> : j \in 1..Len(ws[i].phonemes)} :
                    i \in 1..Len(ws) } :
        GivenScore(ws[p[1]].phonemes[p[2]].score) < 6000 }
Before(p, q) == p[1] < q[1] \/ (p[1] = q[1] /\ p[2] < q[2])

\* C13: the focus areas are the sounds of the response that scored below
\* 60, one entry per such sound with its word, its symbol and its score, in
\* the order of the response (word by word, sound by sound), whatever the
\* score of the word.
C13_WeakPhonemes ==
    Reported =>
       LET ws == assessment.words
           W == WeakPlaces(ws)
       IN  /\ Len(report.weak) = Cardinality(W)
           /\ \A p \in W :
                 LET k == Cardinality({q \in W : Before(q, p)}) + 1
                     given == ws[p[1]].phonemes[p[2]]
                 IN  report.weak[k] = [word |-> ws[p[1]].word,
                                       phoneme |-> given.phoneme,
                                       score |-> GivenScore(given.score)]

C13_Witness ==
    /\ Reported
    /\ Len(assessment.words) = 2
    /\ assessment.words[1].score = Num(7000)
    /\ Cardinality(WeakPlaces(assessment.words)) = 3
    /\ <<1, 1>> \in WeakPlaces(assessment.words)
    /\ <<1, 2>> \in WeakPlaces(assessment.words)
    /\ <<2, 1>> \in WeakPlaces(assessment.words)
    /\ Len(assessment.words[2].phonemes) = 2
    /\ Len(report.weak) = 3

\* C14: the closing tip is the harder-sentence one from 90, the
\* starred-words one from 70 to below 90 and the slow-down one below 70,
\* whatever the grade: a score from 70 to below 75 is graded Fair and gets
\* the starred-words tip.
C14_ClosingTip ==
    Reported =>
       LET s == GivenScore(assessment.overallScore)
       IN  /\ report.tip = TipHarder <=> s >= 9000
           /\ report.tip = TipReview <=> (s >= 7000 /\ s < 9000)
           /\ report.tip = TipSlower <=> s < 7000
           /\ (s >= 7000 /\ s < 7500)
                 => (report.grade = "Fair" /\ report.tip = TipReview)

C14_Witness ==
    /\ Reported
    /\ assessment.overallScore = Num(7000)
    /\ report.grade = "Fair"
    /\ report.tip = TipReview

\* C15: once an iteration is past step 1, a reference clip on disk was
\* written in this iteration; once it is past step 2, the recording on disk
\* was made in this iteration.
C15_ClipsAreFresh ==
    script = "tutor" =>
       /\ (pc \in {"AwaitingRecording", "Transcribing", "Assessing",
                   "ReportingFeedback"} /\ refAudio # "absent")
             => refAudio = "new"
       /\ pc \in {"Transcribing", "Assessing", "ReportingFeedback"}
             => userAudio = "new"

\* C16: with the key variable unset or empty, either script gets no further
\* than its start: it makes no call, and when it has exited it has printed
\* the diagnostic and its status is not 0.
C16_MissingKeyExits ==
    keyEnv \in {EnvAbsent, ""} =>
       /\ pc \in {"Startup", "Exited"}
       /\ calls = <<>>
       /\ pc = "Exited" =>
             /\ Printed(MsgNoKey)
             /\ exitStatus # {}
             /\ 0 \notin exitStatus

C16_Witness ==
    /\ script = "basic"
    /\ keyEnv = ""
    /\ pc = "Exited"
    /\ exitStatus = {1}
    /\ calls = <<>>

InFlight == {"Synthesizing", "AwaitingRecording", "Transcribing",
             "Assessing", "ReportingFeedback"}
C18_IterationReturns ==
    [][(script = "tutor" /\ pc \in InFlight)
          => pc' \in InFlight \cup {"SelectingSentence"}]_vars

\* C19: a report that closes with the starred-words tip has a starred row.
C19_ReviewTipHasStarredWord ==
    (Reported /\ report.tip = TipReview)
       => \E i \in 1..Len(report.rows) : report.rows[i].marked

\* C20: basic_usage.py calls synthesize, transcribe and assess in this
\* order; a call is followed by another only if it succeeded, and a failed
\* call ends the script; transcribe and assess are given the sample when it
\* exists and otherwise the clip synthesize has just written; the closing
\* message is printed only after three successful calls.
BasicOrder ==
    <<"synthesize_speech", "transcribe_audio", "assess_pronunciation">>
C20_BasicSequence ==
    script = "basic" =>
       /\ Len(calls) <= Len(BasicOrder)
       /\ \A i \in 1..Len(calls) : calls[i].op = BasicOrder[i]
       /\ \A i \in 1..(Len(calls) - 1) : calls[i].result = "ok"
       /\ \A i \in 2..Len(calls) :
             /\ calls[i].path = IF sampleAudio = "present"
                                THEN "sample.wav" ELSE "output_tts.wav"
             /\ calls[i].path = "output_tts.wav" => outputTts = "new"
       /\ (calls # <<>> /\ calls[Len(calls)].result # "ok")
             => pc = "Crashed"
       /\ Printed(MsgDone) =>
             /\ Len(calls) = Len(BasicOrder)
             /\ \A i \in 1..Len(calls) : calls[i].result = "ok"

C20_Witness ==
    /\ script = "basic"
    /\ sampleAudio = "present"
    /\ Len(calls) = 3
    /\ calls[2].path = "sample.wav"
    /\ calls[3].path = "sample.wav"
    /\ Printed(MsgDone)
    /\ pc = "BasicDone"

====
